---------------------------- MODULE Spec2Model ----------------------------
(***************************************************************************)
(* Model of package clog (profioss/clog): the Level type with its parser,  *)
(* the logger built by New, the ten logging methods, and the message       *)
(* composer.                                                               *)
(*                                                                         *)
(* Three specifications are defined over one set of variables:             *)
(*   SpecLevel  the Level API applied to inputs drawn from bounded sets;   *)
(*   Spec       one caller: New, then a sequence of logging calls, each    *)
(*              call one atomic step;                                      *)
(*   SpecConc   several threads calling the same logger, each write to a   *)
(*              destination one step.                                      *)
(*                                                                         *)
(* Conventions.  A level string is a TLA+ string, compared exactly as Go's *)
(* switch does.  A message text is a sequence of chunks (<<>> is "").  The *)
(* nil error is NoErr, a nil *log.Logger is NilLogger, a nil io.Writer is  *)
(* NilWriter.  Writes are assumed to succeed (the sink is an external      *)
(* collaborator); the date and time header of a line is not modelled.      *)
(***************************************************************************)
EXTENDS Integers, Sequences, FiniteSets

VARIABLES
    \* ---- Level API (SpecLevel) ----
    origStr,    \* the string the client started from
    origLevel,  \* the Level value the client started from
    curStr,     \* the client's current string
    curLevel,   \* the client's current Level
    curErr,     \* the error of the client's last call
    trace,      \* the calls the client has made, in order
    \* ---- logger (Spec, SpecConc) ----
    phase,      \* "start" before New, "ready" after it, "exited" after os.Exit
    lg,         \* the logger struct New returned
    newErr,     \* the error New returned
    streams,    \* what each destination has received, in order
    exitCode,   \* the status given to os.Exit
    calls,      \* the logging calls made so far, in order
    pend        \* per thread: the write in progress (SpecConc)

levelVars == <<origStr, origLevel, curStr, curLevel, curErr, trace>>
logVars == <<phase, lg, newErr, streams, exitCode, calls, pend>>
vars == <<origStr, origLevel, curStr, curLevel, curErr, trace,
          phase, lg, newErr, streams, exitCode, calls, pend>>

---------------------------------------------------------------------------
(* Level *)

InvalidLevel == -1
DisabledLevel == 0
ErrorLevel == 1
WarnLevel == 2
InfoLevel == 3
DebugLevel == 4

NoErr == "nil"
ErrInvalidLogLevel == "invalid log level"
ErrInvalidLevelValue == "invalid level value"

\* The table the tests name logLevels: level -> string.
logLevels ==
    [l \in {DisabledLevel, ErrorLevel, WarnLevel, InfoLevel, DebugLevel} |->
        CASE l = DisabledLevel -> "disabled"
          [] l = ErrorLevel    -> "error"
          [] l = WarnLevel     -> "warning"
          [] l = InfoLevel     -> "info"
          [] l = DebugLevel    -> "debug"]

ValidLevels == DOMAIN logLevels
ValidStrings == {logLevels[l] : l \in ValidLevels}

\* A copy-and-paste slip in the switch: "warning" selects ErrorLevel.
levelOfStrWarnSlip(s) ==
    CASE s = "disabled" -> [level |-> DisabledLevel, err |-> NoErr]
      [] s = "error"    -> [level |-> ErrorLevel, err |-> NoErr]
      [] s = "warning"  -> [level |-> ErrorLevel, err |-> NoErr]
      [] s = "info"     -> [level |-> InfoLevel, err |-> NoErr]
      [] s = "debug"    -> [level |-> DebugLevel, err |-> NoErr]
      [] OTHER          -> [level |-> InfoLevel, err |-> ErrInvalidLogLevel]

\* levelOfStr: the switch on the exact string; the default branch returns the
\* initial value of level, InfoLevel, with the error.
levelOfStr(s) ==
    CASE s = "disabled" -> [level |-> DisabledLevel, err |-> NoErr]
      [] s = "error"    -> [level |-> ErrorLevel, err |-> NoErr]
      [] s = "warning"  -> [level |-> WarnLevel, err |-> NoErr]
      [] s = "info"     -> [level |-> InfoLevel, err |-> NoErr]
      [] s = "debug"    -> [level |-> DebugLevel, err |-> NoErr]
      [] OTHER          -> [level |-> InfoLevel, err |-> ErrInvalidLogLevel]

\* Level.String: the table's entry, "" for a value not in it.
LevelString(l) == IF l \in DOMAIN logLevels THEN logLevels[l] ELSE ""

\* A range check that forgot its upper end.
ValidateNoUpperEnd(l) == IF l >= DisabledLevel THEN NoErr ELSE ErrInvalidLevelValue

\* Level.Validate: nil for a value of the table, an error otherwise.
Validate(l) == IF l \in DOMAIN logLevels THEN NoErr ELSE ErrInvalidLevelValue

\* Inputs of the Level API.
OutOfRange == 999
LevelInputs == {InvalidLevel, OutOfRange, 5, -2} \cup ValidLevels
StringInputs == ValidStrings \cup
    {"", "nonsense", "bogus-level", "Debug", "INFO", " info", "info ", "warn"}
MaxOps == 2

\* lx, err := levelOfStr(curStr)
CallLevelOfStr ==
    /\ Len(trace) < MaxOps
    /\ curLevel' = levelOfStr(curStr).level
    /\ curErr' = levelOfStr(curStr).err
    /\ trace' = Append(trace, "parse")
    /\ UNCHANGED <<origStr, origLevel, curStr>>
    /\ UNCHANGED logVars

\* s := curLevel.String()
CallString ==
    /\ Len(trace) < MaxOps
    /\ curStr' = LevelString(curLevel)
    /\ trace' = Append(trace, "string")
    /\ UNCHANGED <<origStr, origLevel, curLevel, curErr>>
    /\ UNCHANGED logVars

\* err := curLevel.Validate()
CallValidate ==
    /\ Len(trace) < MaxOps
    /\ curErr' = Validate(curLevel)
    /\ trace' = Append(trace, "validate")
    /\ UNCHANGED <<origStr, origLevel, curStr, curLevel>>
    /\ UNCHANGED logVars

---------------------------------------------------------------------------
(* fmt, runtime, io, log: the library calls the package makes *)

\* An operand of Sprint or Sprintf: its text, and whether it is a Go string.
Str(s) == [isString |-> TRUE, val |-> s]
Val(s) == [isString |-> FALSE, val |-> s]

\* fmt.Sprint: the operands' texts in order, a space between two adjacent
\* operands when neither is a string.
RECURSIVE Sprint(_)
Sprint(ops) ==
    IF ops = <<>> THEN <<>>
    ELSE IF Len(ops) = 1 THEN ops[1].val
    ELSE ops[1].val
         \o (IF ~ops[1].isString /\ ~ops[2].isString THEN <<" ">> ELSE <<>>)
         \o Sprint(Tail(ops))

\* fmt.Sprintf over a format whose chunks are literal text or the verb "%v".
Verb == "%v"
RECURSIVE Sprintf(_, _)
Sprintf(format, args) ==
    IF format = <<>> THEN (IF args = <<>> THEN <<>> ELSE <<"%!(EXTRA)">>)
    ELSE IF format[1] = Verb
         THEN IF args = <<>>
              THEN <<"%!v(MISSING)">> \o Sprintf(Tail(format), args)
              ELSE args[1].val \o Sprintf(Tail(format), Tail(args))
         ELSE <<format[1]>> \o Sprintf(Tail(format), args)

\* runtime.Caller(skip) on a stack written innermost frame first: frame 0 is
\* the function that calls runtime.Caller.
runtimeCaller(stack, skip) ==
    IF skip + 1 <= Len(stack)
    THEN [site |-> stack[skip + 1], ok |-> TRUE]
    ELSE [site |-> "", ok |-> FALSE]

\* Destinations.  Discard stands for ioutil.Discard, which keeps nothing: what
\* streams records under it is the history of the lines handed to it.
Sink == "sink"
NilWriter == "nil"
Discard == "discard"
Stdout == "stdout"
Stderr == "stderr"
Dests == {Sink, Discard, Stdout, Stderr}

\* A *log.Logger: the destinations its one Write per line goes to, in the
\* order io.MultiWriter writes them, and its prefix.
NilLogger == [nil |-> TRUE, out |-> <<>>, prefix |-> ""]
logNew(out, prefix) == [nil |-> FALSE, out |-> out, prefix |-> prefix]

\* One line of output; call is the index in calls of the call that wrote it.
Line(id, prefix, text) == [call |-> id, prefix |-> prefix, text |-> text]

\* One Write of a line to one destination.
Write(s, d, line) == [s EXCEPT ![d] = Append(@, line)]

\* io.MultiWriter's Write: each destination in turn.
RECURSIVE WriteAll(_, _, _)
WriteAll(s, out, line) ==
    IF out = <<>> THEN s
    ELSE WriteAll(Write(s, out[1], line), Tail(out), line)

---------------------------------------------------------------------------
(* logger *)

\* &logger{w: w, verbose: verbose}: every other field has its zero value.
ZeroLogger(w, verbose) ==
    [level |-> 0, w |-> w, verbose |-> verbose,
     debug |-> NilLogger, info |-> NilLogger, warn |-> NilLogger,
     error |-> NilLogger, fatal |-> NilLogger]

\* New with the warn writer built on multiOut: warnings mirrored to standard
\* output instead of standard error.
NewWarnToStdout(w, level, verbose) ==
    LET l0 == ZeroLogger(w, verbose)
        p == levelOfStr(level)
        l1 == [l0 EXCEPT !.level = p.level]
        storage == IF w = NilWriter THEN Discard ELSE w
        multiOut == <<storage, Stdout>>
        multiErr == <<storage, Stderr>>
        l2 == [l1 EXCEPT !.fatal = logNew(multiErr, "FATAL: ")]
        l3 == [l2 EXCEPT !.error = logNew(multiErr, "ERROR: ")]
        l4 == [l3 EXCEPT !.warn = logNew(multiOut, "WARN:  ")]
        l5 == [l4 EXCEPT !.info =
                  IF verbose THEN logNew(multiOut, "INFO:  ")
                  ELSE logNew(<<storage>>, "INFO:  ")]
        l6 == [l5 EXCEPT !.debug =
                  IF verbose THEN logNew(multiOut, "DEBUG: ")
                  ELSE logNew(<<storage>>, "DEBUG: ")]
    IN  IF p.err # NoErr THEN [l |-> l0, err |-> p.err]
        ELSE IF l1.level = DisabledLevel THEN [l |-> l2, err |-> NoErr]
        ELSE IF l1.level = ErrorLevel THEN [l |-> l3, err |-> NoErr]
        ELSE IF l1.level = WarnLevel THEN [l |-> l4, err |-> NoErr]
        ELSE IF l1.level = InfoLevel THEN [l |-> l5, err |-> NoErr]
        ELSE [l |-> l6, err |-> NoErr]

\* New: the logger and the error it returns.
New(w, level, verbose) ==
    LET l0 == ZeroLogger(w, verbose)
        p == levelOfStr(level)
        l1 == [l0 EXCEPT !.level = p.level]
        storage == IF w = NilWriter THEN Discard ELSE w
        multiOut == <<storage, Stdout>>
        multiErr == <<storage, Stderr>>
        l2 == [l1 EXCEPT !.fatal = logNew(multiErr, "FATAL: ")]
        l3 == [l2 EXCEPT !.error = logNew(multiErr, "ERROR: ")]
        l4 == [l3 EXCEPT !.warn = logNew(multiErr, "WARN:  ")]
        l5 == [l4 EXCEPT !.info =
                  IF verbose THEN logNew(multiOut, "INFO:  ")
                  ELSE logNew(<<storage>>, "INFO:  ")]
        l6 == [l5 EXCEPT !.debug =
                  IF verbose THEN logNew(multiOut, "DEBUG: ")
                  ELSE logNew(<<storage>>, "DEBUG: ")]
    IN  IF p.err # NoErr THEN [l |-> l0, err |-> p.err]
        ELSE IF l1.level = DisabledLevel THEN [l |-> l2, err |-> NoErr]
        ELSE IF l1.level = ErrorLevel THEN [l |-> l3, err |-> NoErr]
        ELSE IF l1.level = WarnLevel THEN [l |-> l4, err |-> NoErr]
        ELSE IF l1.level = InfoLevel THEN [l |-> l5, err |-> NoErr]
        ELSE [l |-> l6, err |-> NoErr]

\* pid gated on InfoLevel and above instead of DebugLevel alone.
pidFromInfoLevel(l) == IF l.level >= InfoLevel THEN <<"[pid] ">> ELSE <<>>

\* pid: "[<pid>] " at DebugLevel, "" otherwise.
pid(l) == IF l.level = DebugLevel THEN <<"[pid] ">> ELSE <<>>

\* caller: "<file>:<line> " of the frame three above it at DebugLevel, ""
\* otherwise.  A frame is written as its "<file>:<line>".
caller(l, stack) ==
    IF l.level = DebugLevel
    THEN LET r == runtimeCaller(stack, 3)
         IN  <<IF r.ok THEN r.site ELSE "???:0", " ">>
    ELSE <<>>

\* compose, called from method by the code at site.
compose(l, method, site, msg) ==
    Sprint(<<Str(pid(l)), Str(caller(l, <<"caller", "compose", method, site>>))>>
           \o msg)

\* composef, called from method by the code at site.
composef(l, method, site, format, msg) ==
    Sprint(<<Str(pid(l)),
             Str(caller(l, <<"caller", "composef", method, site>>)),
             Str(Sprintf(format, msg))>>)

\* Each method as what it decides: whether it returns at its guard, the
\* *log.Logger it prints to, the text it prints, and whether it then calls
\* os.Exit(1) (log.Logger.Fatal) or returns (log.Logger.Print).
\* Fatal with the guard of the other methods, as its comment ("Don't log at
\* disabled level") suggests.
FatalSkipsAtDisabled(l, site, msg) ==
    [skip |-> l.level < ErrorLevel \/ l.fatal.nil, logger |-> l.fatal,
     text |-> compose(l, "Fatal", site, msg), exit |-> TRUE]

Fatal(l, site, msg) ==
    [skip |-> l.fatal.nil, logger |-> l.fatal,
     text |-> compose(l, "Fatal", site, msg), exit |-> TRUE]

Fatalf(l, site, format, msg) ==
    [skip |-> l.fatal.nil, logger |-> l.fatal,
     text |-> composef(l, "Fatalf", site, format, msg), exit |-> TRUE]

Error(l, site, msg) ==
    [skip |-> l.level < ErrorLevel \/ l.error.nil, logger |-> l.error,
     text |-> compose(l, "Error", site, msg), exit |-> FALSE]

Errorf(l, site, format, msg) ==
    [skip |-> l.level < ErrorLevel \/ l.error.nil, logger |-> l.error,
     text |-> composef(l, "Errorf", site, format, msg), exit |-> FALSE]

Warn(l, site, msg) ==
    [skip |-> l.level < WarnLevel \/ l.warn.nil, logger |-> l.warn,
     text |-> compose(l, "Warn", site, msg), exit |-> FALSE]

Warnf(l, site, format, msg) ==
    [skip |-> l.level < WarnLevel \/ l.warn.nil, logger |-> l.warn,
     text |-> composef(l, "Warnf", site, format, msg), exit |-> FALSE]

\* Info with the guard copied from Debug.
InfoWithDebugGuard(l, site, msg) ==
    [skip |-> l.level < DebugLevel \/ l.info.nil, logger |-> l.info,
     text |-> compose(l, "Info", site, msg), exit |-> FALSE]

Info(l, site, msg) ==
    [skip |-> l.level < InfoLevel \/ l.info.nil, logger |-> l.info,
     text |-> compose(l, "Info", site, msg), exit |-> FALSE]

Infof(l, site, format, msg) ==
    [skip |-> l.level < InfoLevel \/ l.info.nil, logger |-> l.info,
     text |-> composef(l, "Infof", site, format, msg), exit |-> FALSE]

Debug(l, site, msg) ==
    [skip |-> l.level < DebugLevel \/ l.debug.nil, logger |-> l.debug,
     text |-> compose(l, "Debug", site, msg), exit |-> FALSE]

Debugf(l, site, format, msg) ==
    [skip |-> l.level < DebugLevel \/ l.debug.nil, logger |-> l.debug,
     text |-> composef(l, "Debugf", site, format, msg), exit |-> FALSE]

PlainOps == {"Fatal", "Error", "Warn", "Info", "Debug"}
FormattedOps == {"Fatalf", "Errorf", "Warnf", "Infof", "Debugf"}
Ops == PlainOps \cup FormattedOps

\* The Logger interface: the method a call by name reaches.
Method(op, l, site, format, msg) ==
    CASE op = "Fatal"  -> Fatal(l, site, msg)
      [] op = "Fatalf" -> Fatalf(l, site, format, msg)
      [] op = "Error"  -> Error(l, site, msg)
      [] op = "Errorf" -> Errorf(l, site, format, msg)
      [] op = "Warn"   -> Warn(l, site, msg)
      [] op = "Warnf"  -> Warnf(l, site, format, msg)
      [] op = "Info"   -> Info(l, site, msg)
      [] op = "Infof"  -> Infof(l, site, format, msg)
      [] op = "Debug"  -> Debug(l, site, msg)
      [] op = "Debugf" -> Debugf(l, site, format, msg)


---------------------------------------------------------------------------
(* Inputs *)

WriterArgs == {Sink, NilWriter}
LevelArgs == ValidStrings \cup {"bogus-level"}
Sites == {"main.go:27"}
Msgs == {<<Str(<<"disk ">>), Val(<<"7">>), Val(<<"8">>)>>}
Formats == {<<"rc=", Verb, Verb, ":", Verb>>}
MaxCalls == 3

NoStreams == [d \in Dests |-> <<>>]
Idle == [busy |-> FALSE, call |-> 0, out |-> <<>>, line |-> Line(0, "", <<>>),
         exit |-> FALSE]

\* The record calls keeps of one call: its arguments and how far it got
\* ("running", "returned", or "exited" when it ended in os.Exit).
CallRec(op, site, format, msg, st) ==
    [op |-> op, site |-> site, format |-> format, msg |-> msg, st |-> st]

---------------------------------------------------------------------------
(* Spec: one caller *)

LevelIdle ==
    /\ origStr = ""
    /\ origLevel = 0
    /\ curStr = ""
    /\ curLevel = 0
    /\ curErr = NoErr
    /\ trace = <<>>

LoggerStart ==
    /\ phase = "start"
    /\ lg = ZeroLogger(NilWriter, FALSE)
    /\ newErr = NoErr
    /\ streams = NoStreams
    /\ exitCode = 0
    /\ calls = <<>>
    /\ pend = <<>>

Init == LevelIdle /\ LoggerStart

\* logger, err := clog.New(w, level, verbose)
Construct ==
    /\ phase = "start"
    /\ \E w \in WriterArgs, level \in LevelArgs, verbose \in BOOLEAN :
          /\ lg' = New(w, level, verbose).l
          /\ newErr' = New(w, level, verbose).err
    /\ phase' = "ready"
    /\ UNCHANGED <<streams, exitCode, calls, pend>>
    /\ UNCHANGED levelVars

\* One call of method op, start to end: the guard, then one Write of the line
\* through the method's *log.Logger, then the return or os.Exit(1).
Run(op, site, format, msg) ==
    LET c == Method(op, lg, site, format, msg)
        id == Len(calls) + 1
    IN  /\ phase = "ready"
        /\ Len(calls) < MaxCalls
        /\ IF c.skip
           THEN /\ calls' = Append(calls, CallRec(op, site, format, msg, "returned"))
                /\ UNCHANGED <<streams, phase, exitCode>>
           ELSE /\ streams' = WriteAll(streams, c.logger.out,
                                       Line(id, c.logger.prefix, c.text))
                /\ IF c.exit
                   THEN /\ phase' = "exited"
                        /\ exitCode' = 1
                        /\ calls' = Append(calls, CallRec(op, site, format, msg, "exited"))
                   ELSE /\ calls' = Append(calls, CallRec(op, site, format, msg, "returned"))
                        /\ UNCHANGED <<phase, exitCode>>
        /\ UNCHANGED pend
        /\ UNCHANGED levelVars

CallFatal == \E site \in Sites, msg \in Msgs :
    Run("Fatal", site, <<>>, msg) /\ UNCHANGED <<lg, newErr>>
CallFatalf == \E site \in Sites, format \in Formats, msg \in Msgs :
    Run("Fatalf", site, format, msg) /\ UNCHANGED <<lg, newErr>>
CallError == \E site \in Sites, msg \in Msgs :
    Run("Error", site, <<>>, msg) /\ UNCHANGED <<lg, newErr>>
CallErrorf == \E site \in Sites, format \in Formats, msg \in Msgs :
    Run("Errorf", site, format, msg) /\ UNCHANGED <<lg, newErr>>
CallWarn == \E site \in Sites, msg \in Msgs :
    Run("Warn", site, <<>>, msg) /\ UNCHANGED <<lg, newErr>>
CallWarnf == \E site \in Sites, format \in Formats, msg \in Msgs :
    Run("Warnf", site, format, msg) /\ UNCHANGED <<lg, newErr>>
CallInfo == \E site \in Sites, msg \in Msgs :
    Run("Info", site, <<>>, msg) /\ UNCHANGED <<lg, newErr>>
CallInfof == \E site \in Sites, format \in Formats, msg \in Msgs :
    Run("Infof", site, format, msg) /\ UNCHANGED <<lg, newErr>>
\* Debug creating its writer on first use when New left it nil.
CallDebugLazyWriter == \E site \in Sites, msg \in Msgs :
    /\ Run("Debug", site, <<>>, msg)
    /\ newErr' = newErr
    /\ lg' = IF lg.debug.nil
             THEN [lg EXCEPT !.debug = logNew(<<Discard>>, "DEBUG: ")]
             ELSE lg
CallDebug == \E site \in Sites, msg \in Msgs :
    Run("Debug", site, <<>>, msg) /\ UNCHANGED <<lg, newErr>>
CallDebugf == \E site \in Sites, format \in Formats, msg \in Msgs :
    Run("Debugf", site, format, msg) /\ UNCHANGED <<lg, newErr>>

Next ==
    \/ Construct
    \/ CallFatal \/ CallFatalf
    \/ CallError \/ CallErrorf
    \/ CallWarn \/ CallWarnf
    \/ CallInfo \/ CallInfof
    \/ CallDebug \/ CallDebugf

Spec == Init /\ [][Next]_vars


---------------------------------------------------------------------------
(* SpecConc: several threads call the one logger New returned *)

NumThreads == 2
Threads == 1 .. NumThreads
MaxConcCalls == 2

\* One method of each severity: the plain and the formatted method of a
\* severity differ in compose and composef only, which Spec exercises.
ConcOps == {"Fatal", "Errorf", "Warn", "Infof", "Debug"}

\* The threads share a sink whose Write is safe for concurrent use.
ConcWriterArgs == {Sink}

ConcInit ==
    /\ LevelIdle
    /\ phase = "ready"
    /\ \E w \in ConcWriterArgs, level \in LevelArgs, verbose \in BOOLEAN :
          /\ lg = New(w, level, verbose).l
          /\ newErr = New(w, level, verbose).err
    /\ streams = NoStreams
    /\ exitCode = 0
    /\ calls = <<>>
    /\ pend = [t \in Threads |-> Idle]

\* Thread t enters a method: the guard, compose, and the line handed to the
\* method's *log.Logger, whose one Write io.MultiWriter then passes to each
\* destination in turn.
Invoke(t) ==
    /\ phase = "ready"
    /\ ~pend[t].busy
    /\ Len(calls) < MaxConcCalls
    /\ \E op \in ConcOps, site \in Sites, format \in Formats, msg \in Msgs :
          LET c == Method(op, lg, site, format, msg)
              id == Len(calls) + 1
              f == IF op \in FormattedOps THEN format ELSE <<>>
          IN  IF c.skip
              THEN /\ calls' = Append(calls, CallRec(op, site, f, msg, "returned"))
                   /\ UNCHANGED pend
              ELSE /\ calls' = Append(calls, CallRec(op, site, f, msg, "running"))
                   /\ pend' = [pend EXCEPT ![t] =
                         [busy |-> TRUE, call |-> id, out |-> c.logger.out,
                          line |-> Line(id, c.logger.prefix, c.text),
                          exit |-> c.exit]]
    /\ UNCHANGED <<phase, lg, newErr, streams, exitCode>>
    /\ UNCHANGED levelVars

\* Thread t's Write reaches its next destination.
WriteStep(t) ==
    /\ phase = "ready"
    /\ pend[t].busy
    /\ pend[t].out # <<>>
    /\ streams' = Write(streams, Head(pend[t].out), pend[t].line)
    /\ pend' = [pend EXCEPT ![t].out = Tail(@)]
    /\ UNCHANGED <<phase, lg, newErr, exitCode, calls>>
    /\ UNCHANGED levelVars

\* The method returning while its line is still on the way to a destination.
ReturnBeforeWritten(t) ==
    /\ phase = "ready"
    /\ pend[t].busy
    /\ ~pend[t].exit
    /\ calls' = [calls EXCEPT ![pend[t].call].st = "returned"]
    /\ pend' = [pend EXCEPT ![t] = Idle]
    /\ UNCHANGED <<phase, lg, newErr, streams, exitCode>>
    /\ UNCHANGED levelVars

\* Thread t's Print is done and its method returns.
Return(t) ==
    /\ phase = "ready"
    /\ pend[t].busy
    /\ pend[t].out = <<>>
    /\ ~pend[t].exit
    /\ calls' = [calls EXCEPT ![pend[t].call].st = "returned"]
    /\ pend' = [pend EXCEPT ![t] = Idle]
    /\ UNCHANGED <<phase, lg, newErr, streams, exitCode>>
    /\ UNCHANGED levelVars

\* Thread t's log.Logger.Fatal has written and calls os.Exit(1): every thread
\* stops where it is.
Exit(t) ==
    /\ phase = "ready"
    /\ pend[t].busy
    /\ pend[t].out = <<>>
    /\ pend[t].exit
    /\ calls' = [calls EXCEPT ![pend[t].call].st = "exited"]
    /\ phase' = "exited"
    /\ exitCode' = 1
    /\ UNCHANGED <<lg, newErr, streams, pend>>
    /\ UNCHANGED levelVars

ConcNext ==
    \E t \in Threads : Invoke(t) \/ WriteStep(t) \/ Return(t) \/ Exit(t)

SpecConc == ConcInit /\ [][ConcNext]_vars

---------------------------------------------------------------------------
(* SpecLevel: the Level API *)

LevelInit ==
    /\ origStr \in StringInputs
    /\ origLevel \in LevelInputs
    /\ curStr = origStr
    /\ curLevel = origLevel
    /\ curErr = NoErr
    /\ trace = <<>>
    /\ LoggerStart

LevelNext == CallLevelOfStr \/ CallString \/ CallValidate

SpecLevel == LevelInit /\ [][LevelNext]_vars

---------------------------------------------------------------------------
(* Properties *)

FatalOps == {"Fatal", "Fatalf"}
CallIds == 1 .. Len(calls)

\* The severity of a non-fatal method, in the order
\* Disabled < Error < Warn < Info < Debug.
Severity(op) ==
    CASE op \in {"Error", "Errorf"} -> ErrorLevel
      [] op \in {"Warn", "Warnf"}   -> WarnLevel
      [] op \in {"Info", "Infof"}   -> InfoLevel
      [] op \in {"Debug", "Debugf"} -> DebugLevel

\* How many lines of call id destination d has received.
Count(d, id) ==
    Cardinality({k \in 1 .. Len(streams[d]) : streams[d][k].call = id})

\* The destinations that have received a line of call id.
Written(id) == {d \in Dests : Count(d, id) > 0}

\* Where the persistent-sink write of a logger goes.
Storage == IF lg.w = NilWriter THEN Discard ELSE Sink

\* The console stream of a method: standard error for Fatal, Error and Warn,
\* standard output for Info and Debug when verbose.
Console(op) ==
    IF op \in {"Fatal", "Fatalf", "Error", "Errorf", "Warn", "Warnf"}
    THEN {Stderr}
    ELSE IF lg.verbose THEN {Stdout} ELSE {}

\* The message body of call id, without prefixes.
Body(id) ==
    IF calls[id].op \in FormattedOps
    THEN Sprintf(calls[id].format, calls[id].msg)
    ELSE Sprint(calls[id].msg)

\* The last line of destination d is a line of call id.
LastIs(d, id) == streams[d] # <<>> /\ streams[d][Len(streams[d])].call = id

C2_FatalWorksAfterFailedNew ==
    (phase # "start" /\ newErr # NoErr) =>
        \A i \in CallIds :
            calls[i].op \in FatalOps =>
                /\ calls[i].st = "exited"
                /\ phase = "exited"
                /\ Count(Stderr, i) = 1

\* C3: after New succeeded, a call of a non-fatal method wrote a line if and
\* only if the configured level is at least the method's severity; the
\* writer of a severity exists exactly when the level is at least it; under
\* Disabled the four severities write nothing.
C3_OutputIffLevelAdmits ==
    (phase # "start" /\ newErr = NoErr) =>
        /\ \A i \in CallIds :
              calls[i].op \notin FatalOps =>
                  (Written(i) # {} <=> lg.level >= Severity(calls[i].op))
        /\ ~lg.error.nil <=> lg.level >= ErrorLevel
        /\ ~lg.warn.nil <=> lg.level >= WarnLevel
        /\ ~lg.info.nil <=> lg.level >= InfoLevel
        /\ ~lg.debug.nil <=> lg.level >= DebugLevel
        /\ (lg.level = DisabledLevel /\ \A i \in CallIds : calls[i].op \notin FatalOps)
              => \A d \in Dests : streams[d] = <<>>

\* Under "warning" a Warnf call has written and an Info call has not.
C3_Witness ==
    /\ newErr = NoErr
    /\ lg.level = WarnLevel
    /\ Len(calls) = 2
    /\ calls[1].op = "Warnf" /\ Written(1) # {}
    /\ calls[2].op = "Info" /\ Written(2) = {}

\* C4: after New succeeded, a non-fatal call that wrote has written one line
\* to each of: the persistent sink and standard error (Error, Warn); the
\* persistent sink (Info, Debug, not verbose); the persistent sink and
\* standard output (Info, Debug, verbose); and to nothing else.  With no sink
\* the persistent-sink write is discarded and the console part is the same.
C4_DestinationSet ==
    (phase # "start" /\ newErr = NoErr) =>
        /\ \A i \in CallIds :
              (calls[i].op \notin FatalOps /\ Written(i) # {}) =>
                  /\ Written(i) = {Storage} \cup Console(calls[i].op)
                  /\ \A d \in Written(i) : Count(d, i) = 1
        /\ lg.w = NilWriter => streams[Sink] = <<>>
        /\ lg.w = Sink => streams[Discard] = <<>>

\* The example program: "info", not verbose, a sink; Info went to the sink
\* only, Debug nowhere, Error to the sink and standard error.
C4_Witness ==
    /\ newErr = NoErr
    /\ lg.level = InfoLevel /\ ~lg.verbose /\ lg.w = Sink
    /\ Len(calls) = 3
    /\ calls[1].op = "Info" /\ Written(1) = {Sink}
    /\ calls[2].op = "Debug" /\ Written(2) = {}
    /\ calls[3].op = "Error" /\ Written(3) = {Sink, Stderr}

\* C5: the text of every line written, whatever the method, is the pid
\* prefix, then the call-site prefix of the code that called the method, then
\* the message body when the configured level is Debug, and the message body
\* alone under every other level.
C5_PrefixesIffDebugLevel ==
    phase # "start" =>
        \A d \in Dests : \A k \in 1 .. Len(streams[d]) :
            LET ln == streams[d][k] IN
                ln.text =
                    (IF lg.level = DebugLevel
                     THEN <<"[pid] ", calls[ln.call].site, " ">>
                     ELSE <<>>)
                    \o Body(ln.call)

\* Under "debug" an Errorf line and a Debug line carry both prefixes.
C5_Witness ==
    /\ lg.level = DebugLevel
    /\ Len(calls) = 2
    /\ calls[1].op = "Errorf"
    /\ calls[2].op = "Debug"
    /\ Len(streams[Sink]) = 2
    /\ \A k \in 1 .. 2 : SubSeq(streams[Sink][k].text, 1, 3)
                            = <<"[pid] ", "main.go:27", " ">>

FiveStrings == {"disabled", "error", "warning", "info", "debug"}
FiveLevels == {DisabledLevel, ErrorLevel, WarnLevel, InfoLevel, DebugLevel}

\* C6: for each of the five level strings, levelOfStr returns no error and a
\* level whose String is the string again; for each of the five levels,
\* levelOfStr of its String returns the level and no error; the five strings
\* give five different levels.
C6_RoundTrip ==
    /\ (trace = <<"parse">> /\ origStr \in FiveStrings) =>
          (curErr = NoErr /\ curLevel \in FiveLevels)
    /\ (trace = <<"parse", "string">> /\ origStr \in FiveStrings) =>
          curStr = origStr
    /\ (trace = <<"string", "parse">> /\ origLevel \in FiveLevels) =>
          (curLevel = origLevel /\ curErr = NoErr)
    /\ Cardinality({levelOfStr(s).level : s \in FiveStrings}) = 5

\* "warning" parsed and converted back.
C6_Witness ==
    /\ trace = <<"parse", "string">>
    /\ origStr = "warning"
    /\ curLevel = WarnLevel
    /\ curStr = "warning"

\* C7: for a string that is none of the five, levelOfStr returns an error
\* and the Invalid sentinel, which is none of the five levels.
C7_InvalidStringGivesSentinel ==
    /\ InvalidLevel \notin FiveLevels
    /\ (trace = <<"parse">> /\ origStr \notin FiveStrings) =>
          (curErr # NoErr /\ curLevel = InvalidLevel)

\* C8: Validate returns no error for exactly the five levels; for every
\* other value (Invalid, 999, ...) it returns an error and String returns "".
C8_ValidateExactlyFive ==
    /\ trace = <<"validate">> => (curErr = NoErr <=> origLevel \in FiveLevels)
    /\ (trace = <<"string">> /\ origLevel \notin FiveLevels) => curStr = ""
    /\ (trace = <<"string">> /\ origLevel \in FiveLevels) => curStr # ""

\* Validate has refused 999.
C8_Witness ==
    /\ trace = <<"validate">>
    /\ origLevel = OutOfRange
    /\ curErr # NoErr

\* C9: once New has returned, no step changes the logger (level, verbose,
\* sink, the five writers) or the error New returned.
C9_ConfigurationFrozen ==
    [][phase = "ready" => (lg' = lg /\ newErr' = newErr)]_vars

\* Under "info" an Info call has written and a Debug call has not.
C9_Witness ==
    /\ phase = "ready"
    /\ lg.level = InfoLevel
    /\ Len(calls) = 2
    /\ calls[1].op = "Info" /\ Written(1) # {}
    /\ calls[2].op = "Debug" /\ Written(2) = {}

\* C10: with threads interleaved at every Write, a call that has returned
\* has written exactly one line to each of its destinations and none
\* elsewhere (nothing if the level does not admit it); a Fatal call that
\* ended the process had written its line to both of its destinations; a
\* call still running has written at most one line to each; and every line
\* in a destination is the whole line of the call that wrote it.
C10_OneLinePerDestination ==
    newErr = NoErr =>
        /\ \A i \in CallIds :
              LET op == calls[i].op
                  want == IF op \in FatalOps \/ lg.level >= Severity(op)
                          THEN {Storage} \cup Console(op)
                          ELSE {}
              IN  /\ \A d \in Dests : Count(d, i) <= 1
                  /\ Written(i) \subseteq want
                  /\ calls[i].st \in {"returned", "exited"} => Written(i) = want
        /\ \A d \in Dests : \A k \in 1 .. Len(streams[d]) :
              LET ln == streams[d][k]
                  c == calls[ln.call]
                  m == Method(c.op, lg, c.site, c.format, c.msg)
              IN  ln = Line(ln.call, m.logger.prefix, m.text)

\* Two calls ran at the same time: their lines are in one order in the sink
\* and in the other order on standard error, and both have returned.
C10_Witness ==
    /\ newErr = NoErr
    /\ Len(calls) = 2
    /\ calls[1].st = "returned" /\ calls[2].st = "returned"
    /\ Len(streams[Sink]) = 2 /\ Len(streams[Stderr]) = 2
    /\ streams[Sink][1].call = 1 /\ streams[Sink][2].call = 2
    /\ streams[Stderr][1].call = 2 /\ streams[Stderr][2].call = 1

===========================================================================
